---- MODULE Spec2Model ----
(***************************************************************************)
(* nchat: a UDP chat relay.  The server (src/bin/server.rs) keeps a set of *)
(* group names and a set of member endpoints and relays datagrams; the     *)
(* client (src/bin/client.rs) runs a receiver thread (mailbox), a render   *)
(* thread (prerender), a sender thread (postman) and the UI loop on the    *)
(* main thread, connected by mpsc channels.  The wire message model is     *)
(* src/lib.rs.                                                             *)
(***************************************************************************)
EXTENDS Integers, Sequences, FiniteSets, Bags, TLC

\* ------------------------------------------------------------------ bounds

\* Number of distinct remote endpoints (SocketAddr values) in the model.
NumEndpoints == 3
\* Largest value of the wall clock (Utc::now().timestamp()).
MaxClock == 2
\* Datagrams the client's receiver thread takes from its socket in one run.
MaxRecv == 2
\* Texts the user submits in one run.
MaxSubmit == 2

\* ------------------------------------------------------- wire model (lib.rs)

\* lib.rs:7-13.  The variant names are what serde writes on the wire; the
\* fourth variant is spelled EixtServer in the source.
ControlCode == {"SendMessage", "JoinGroup", "LeaveGroup", "EixtServer", "Error"}

\* SocketAddr values: host 127.0.0.1 (the default of both binaries) and a port.
BasePort == 9090
Ports == BasePort .. (BasePort + NumEndpoints - 1)
SocketAddr == [ip : {"127.0.0.1"}, port : Ports]
Addr(p) == [ip |-> "127.0.0.1", port |-> p]

\* The client of the client part of the model binds the default address.
ClientAddr == Addr(BasePort)

\* An IPv6 socket address has two more parts (std::net::SocketAddrV6): the
\* flow information and the scope id.
SocketAddrV6 == [ip : {"::1"}, port : {BasePort}, flowinfo : {0, 1},
                 scope_id : {0, 1}]
IsV6(a) == "flowinfo" \in DOMAIN a

\* Display/serialisation of a SocketAddr, which serde uses for a text format:
\* the text "host:port", kept as the pair of its two parts; for IPv6
\* "[host%scope]:port" (the scope left out when 0), kept as its three parts.
\* The flow information is not part of the text.
AddrToString(a) ==
    IF IsV6(a) THEN <<a.ip, a.scope_id, a.port>> ELSE <<a.ip, a.port>>
\* FromStr of a SocketAddr: fails on a text that is no host:port.
AddrParses(s) == \E a \in SocketAddr \cup SocketAddrV6 : AddrToString(a) = s
\* An IPv6 text gives an address whose flow information is 0.
StringToAddr(s) ==
    IF Len(s) = 3
    THEN [ip |-> s[1], port |-> s[3], flowinfo |-> 0, scope_id |-> s[2]]
    ELSE CHOOSE a \in SocketAddr : AddrToString(a) = s

Member(nickname, address) == [nickname |-> nickname, address |-> address]
Group(name, id) == [name |-> name, id |-> id]
Message(code, timestamp, group, sender, msg) ==
    [code |-> code, timestamp |-> timestamp, group |-> group,
     sender |-> sender, msg |-> msg]

\* Message::update_timestamp with the clock reading `now`.
update_timestamp(m, now) == [m EXCEPT !.timestamp = now]
update_sender_address(m, address) == [m EXCEPT !.sender.address = address]
set_code(m, code) == [m EXCEPT !.code = code]
\* The text left as it was.
set_message_keep(m, text) == m

set_message(m, text) == [m EXCEPT !.msg = text]

\* A datagram: `utf8` says whether its bytes are valid UTF-8, `json` whether
\* the text is a JSON object holding every field of Message with the right
\* JSON type; the fields are the values the text gives them.
to_string(m) ==
    [utf8 |-> TRUE, json |-> TRUE,
     code |-> m.code, timestamp |-> m.timestamp,
     group |-> [name |-> m.group.name, id |-> m.group.id],
     sender |-> [nickname |-> m.sender.nickname,
                 address |-> AddrToString(m.sender.address)],
     msg |-> m.msg]

\* The bytes taken as text without the validity check.
from_utf8_unchecked(raw) == TRUE

\* std::str::from_utf8
from_utf8_ok(raw) == raw.utf8

\* serde_json::from_str::<Message>: Err on text that is not such an object,
\* on an unknown variant name and on an address that does not parse.
from_str_ok(raw) ==
    /\ raw.json
    /\ raw.code \in ControlCode
    /\ AddrParses(raw.sender.address)
from_str(raw) ==
    Message(raw.code, raw.timestamp, Group(raw.group.name, raw.group.id),
            Member(raw.sender.nickname, StringToAddr(raw.sender.address)),
            raw.msg)

\* ------------------------------------------------------------ model inputs

\* Message texts: a group name the server knows, and one it does not.
Texts == {"global", "nogroup"}
\* The timestamps embedded in what is sent to the server and to the client
\* (the clock starts above them).
EmbeddedTimestamps == {0}

\* Datagrams that decode: every control code and text, with an embedded sender
\* address that may or may not be the endpoint the datagram comes from.
GoodDatagrams ==
    {to_string(Message(c, ts, Group("", 0), Member("alice", Addr(p)), t)) :
        c \in ControlCode, ts \in EmbeddedTimestamps,
        p \in {BasePort, BasePort + 1}, t \in Texts}

Sample == to_string(Message("SendMessage", 0, Group("", 0),
                            Member("alice", ClientAddr), "global"))
\* Bytes that are not UTF-8; text that is not JSON; a variant name the enum
\* does not have; an address that is no host:port.
NotUtf8 == [Sample EXCEPT !.utf8 = FALSE, !.json = FALSE]
NotJson == [Sample EXCEPT !.json = FALSE]
UnknownCode == [Sample EXCEPT !.code = "ExitServer"]
BadAddress == [Sample EXCEPT !.sender.address = <<"localhost", 0>>]
BadDatagrams == {NotUtf8, NotJson, UnknownCode, BadAddress}

Datagrams == GoodDatagrams \cup BadDatagrams

\* ------------------------------------------------------------------- state

VARIABLES
    clock,      \* the wall clock, Utc::now().timestamp()
    \* --- server.rs
    groups,     \* Server.groups
    members,    \* Server.members
    srvPc,      \* Server::listen: "recv" (blocked in recv_from), "parse"
                \* (about to call parse_msg), "panicked" (an unwrap failed)
    inRaw,      \* the datagram recv_from returned last
    inSrc,      \* its source endpoint
    outbox,     \* bag of the socket.send_to calls made for that datagram:
                \* [to, payload, ok]
    \* --- client.rs
    clientGroup,\* Client.group
    cliPc,      \* the main thread: "login", "ui" (the loop of run),
                \* "shutdown_mail", "shutdown_post" (the two sends of the
                \* shutdown broadcast), "run_return", "join_prerender",
                \* "join_postman", "join_mailbox", "exit", "panicked"
    mailboxPc,  \* the mailbox thread (forward_udp): "recv", "done"
    prerenderPc,\* the prerender thread: "run", "done", "panicked"
    postmanPc,  \* the postman thread: "run", "done", "panicked"
    mailQ,      \* channel mail_sender -> mail_receiver, of InternalMessage
    viewQ,      \* channel view_sender -> view_receiver, of rendered lines
    postQ,      \* channel post_sender -> post_receiver, of InternalMessage
    viewRx,     \* view_receiver has not been dropped
    template,   \* `default`, the Message the postman rewrites and sends
    history,    \* the children of chat.history, in order
    sentC,      \* the socket.send calls of the client: [payload, ok]
    buf,        \* the mailbox thread's buf[..len]: the datagram socket.recv
                \* returned last
    nRecv,      \* datagrams socket.recv has returned
    nSubmit,    \* texts submitted
    \* --- the network between the two
    c2s,        \* datagrams of the client on their way to the server
    s2c,        \* datagrams of the server on their way to the client
    \* --- lib.rs: one Message taken through serde_json and back
    encIn,      \* the Message given to serde_json::to_string
    wire,       \* the text to_string returned
    decOut,     \* the Message serde_json::from_str returned for it
    codecPc     \* "idle", "new", "encoded", "decoded", "failed" (from_str
                \* returned Err)

serverVars == <<groups, members, srvPc, inRaw, inSrc, outbox>>
clientVars == <<clientGroup, cliPc, mailboxPc, prerenderPc, postmanPc, mailQ,
                viewQ, postQ, viewRx, template, history, sentC, buf, nRecv, nSubmit>>
netVars == <<c2s, s2c>>
codecVars == <<encIn, wire, decOut, codecPc>>
vars == <<clock, serverVars, clientVars, netVars, codecVars>>

\* ------------------------------------------------------ server (server.rs)

group_exist(name) == name \in groups
add_member(addr) == members \cup {addr}
remove_member(addr) == members \ {addr}

Transmission(to, payload, ok) == [to |-> to, payload |-> payload, ok |-> ok]
Sends(box) == BagToSet(box)

\* What a run of socket.send_to(..).unwrap() over the endpoints `dests`, in
\* the HashSet's arbitrary order, can do: every send succeeds, or the send to
\* `f` fails after the sends to some of the others, and unwrap panics.
SendOutcomes(dests, payload) ==
    {[sent |-> SetToBag({Transmission(d, payload, TRUE) : d \in dests}),
      panicked |-> FALSE]}
    \cup
    UNION {{[sent |-> SetToBag({Transmission(d, payload, TRUE) : d \in done}
                               \cup {Transmission(f, payload, FALSE)}),
             panicked |-> TRUE] : done \in SUBSET (dests \ {f})} :
           f \in dests}

\* server.rs:50-55.  `mem` is self.members when the loop runs.
send_to_all(msg, mem) ==
    \E o \in SendOutcomes(mem, to_string(msg)) :
        /\ outbox' = o.sent
        /\ srvPc' = IF o.panicked THEN "panicked" ELSE "recv"

\* server.rs:57-60
send_to(msg, src) ==
    \E o \in SendOutcomes({src}, to_string(msg)) :
        /\ outbox' = o.sent
        /\ srvPc' = IF o.panicked THEN "panicked" ELSE "recv"

\* server.rs:83-85
handle_msg_error(msg, src) ==
    /\ outbox' = EmptyBag
    /\ srvPc' = "recv"
    /\ UNCHANGED members

\* handle_msg_send_message taking the sender of a message for a member.
handle_msg_send_message_autojoin(msg, src) ==
    /\ members' = add_member(src)
    /\ send_to_all(update_timestamp(update_sender_address(msg, src), clock),
                   add_member(src))

\* server.rs:87-92
handle_msg_send_message(msg, src) ==
    /\ UNCHANGED members
    /\ send_to_all(update_timestamp(update_sender_address(msg, src), clock),
                   members)

\* handle_msg_join_group without the check of the group name.
handle_msg_join_group_unchecked(msg, src) ==
    /\ members' = add_member(src)
    /\ send_to_all(update_timestamp(update_sender_address(msg, src), clock),
                   add_member(src))

\* server.rs:94-107.  The group asked for is the message text.
handle_msg_join_group(msg, src) ==
    IF ~group_exist(msg.msg)
    THEN /\ UNCHANGED members
         /\ send_to(update_timestamp(
                        set_code(set_message(msg, <<"group", msg.msg, "not exist">>),
                                 "Error"),
                        clock),
                    src)
    ELSE /\ members' = add_member(src)
         /\ send_to_all(update_timestamp(update_sender_address(msg, src), clock),
                        add_member(src))

\* handle_msg_leave_group answering a non-member with an Error, the way a
\* failed join is answered.
handle_msg_leave_group_strict(msg, src) ==
    IF src \notin members
    THEN /\ UNCHANGED members
         /\ send_to(update_timestamp(set_code(msg, "Error"), clock), src)
    ELSE /\ members' = remove_member(src)
         /\ send_to_all(update_timestamp(update_sender_address(msg, src), clock),
                        remove_member(src))

\* server.rs:109-116
handle_msg_leave_group(msg, src) ==
    /\ members' = remove_member(src)
    /\ send_to_all(update_timestamp(update_sender_address(msg, src), clock),
                   remove_member(src))

\* A failed unwrap: the thread panics; the server has one thread.
ServerPanic ==
    /\ srvPc' = "panicked"
    /\ outbox' = EmptyBag
    /\ UNCHANGED members

\* parse_msg with EixtServer handled as LeaveGroup is.
parse_msg_exit_leaves(raw, src) ==
    IF ~from_utf8_ok(raw) \/ ~from_str_ok(raw)
    THEN ServerPanic
    ELSE LET msg == from_str(raw) IN
         CASE msg.code = "Error" -> handle_msg_error(msg, src)
           [] msg.code = "SendMessage" -> handle_msg_send_message(msg, src)
           [] msg.code = "JoinGroup" -> handle_msg_join_group(msg, src)
           [] OTHER -> handle_msg_leave_group(msg, src)

\* server.rs:70-81.  The match has no arm for EixtServer: no handler runs.
parse_msg(raw, src) ==
    IF ~from_utf8_ok(raw) \/ ~from_str_ok(raw)
    THEN ServerPanic
    ELSE LET msg == from_str(raw) IN
         CASE msg.code = "Error" -> handle_msg_error(msg, src)
           [] msg.code = "SendMessage" -> handle_msg_send_message(msg, src)
           [] msg.code = "JoinGroup" -> handle_msg_join_group(msg, src)
           [] msg.code = "LeaveGroup" -> handle_msg_leave_group(msg, src)
           [] OTHER -> /\ outbox' = EmptyBag
                       /\ srvPc' = "recv"
                       /\ UNCHANGED members

\* server.rs:65: recv_from returns a datagram and its source.
recv_from(raw, src) ==
    /\ srvPc = "recv"
    /\ srvPc' = "parse"
    /\ inRaw' = raw
    /\ inSrc' = src
    /\ outbox' = EmptyBag
    /\ UNCHANGED <<groups, members>>

\* server.rs:66: the call of parse_msg on what recv_from returned.
listen_parse ==
    /\ srvPc = "parse"
    /\ parse_msg(inRaw, inSrc)
    /\ UNCHANGED <<groups, inRaw, inSrc>>

\* server.rs:22-32: the state Server::new leaves.
ServerInit ==
    /\ groups = {"global"}
    /\ members = {}
    /\ srvPc = "recv"
    /\ inRaw = NotUtf8
    /\ inSrc = ClientAddr
    /\ outbox = EmptyBag

\* ------------------------------------------------------ client (client.rs)

InternalMessage(code, msg) == [code |-> code, msg |-> msg]

\* client.rs:87-93.  `group` is Client.group when the call is made.
get_group(group) == Group(group, 0)
get_member == Member("alice", ClientAddr)

\* chrono's DateTime::from_timestamp gives None outside the years it can
\* represent; the range is scaled down here.
ChronoRange == 100
BadTimestamp == ChronoRange + 1
from_timestamp_ok(t) == -ChronoRange <= t /\ t <= ChronoRange

Line(kind, nickname, address, time, body) ==
    [kind |-> kind, nickname |-> nickname, address |-> address,
     time |-> time, body |-> body]

\* client.rs:330-382.  A line is kept as the parts format! puts in it.
message_prerender(m) ==
    IF ~from_timestamp_ok(m.timestamp)
    THEN [some |-> FALSE, text |-> Line("", "", <<"", 0>>, 0, "")]
    ELSE [some |-> TRUE,
          text |->
            CASE m.code = "Error" ->
                   Line("## server send an error", "", <<"", 0>>, 0, m.msg)
              [] m.code = "EixtServer" ->
                   Line("has exit the server", m.sender.nickname,
                        AddrToString(m.sender.address), m.timestamp, "")
              [] m.code = "JoinGroup" ->
                   Line("has joined the group", m.sender.nickname,
                        AddrToString(m.sender.address), m.timestamp, "")
              [] m.code = "LeaveGroup" ->
                   Line("has left the group", m.sender.nickname,
                        AddrToString(m.sender.address), m.timestamp, "")
              [] OTHER ->
                   Line("~>", m.sender.nickname,
                        AddrToString(m.sender.address), m.timestamp, m.msg)]

\* The process is running its threads: main has spawned them and has neither
\* returned nor panicked.
ThreadsRun == cliPc \notin {"login", "exit", "panicked"}

\* A call of socket.send by the client: it succeeds (the datagram is on its
\* way) or returns Err.
SocketSend(payload, ok) ==
    /\ sentC' = Append(sentC, [payload |-> payload, ok |-> ok])
    /\ c2s' = IF ok THEN Append(c2s, payload) ELSE c2s

\* client.rs:95-104 with `name` = Args.group, and main's spawns,
\* client.rs:107-136.  Client.group is still empty when the login message is
\* built; the postman's template is built after it is set.
try_login(name) ==
    /\ cliPc = "login"
    /\ \E ok \in BOOLEAN :
        /\ SocketSend(to_string(Message("JoinGroup", clock, get_group(clientGroup),
                                        get_member, name)), ok)
        /\ cliPc' = IF ok THEN "ui" ELSE "panicked"
    /\ clientGroup' = name
    /\ template' = Message("SendMessage", clock, get_group(name),
                           get_member, "")
    /\ UNCHANGED <<mailboxPc, prerenderPc, postmanPc, mailQ, viewQ,
                   postQ, viewRx, history, buf, nRecv, nSubmit, s2c>>

\* forward_udp giving up (return false) on a text that does not decode.
after_forward_strict(raw) ==
    IF from_str_ok(raw) /\ from_str(raw).code # "EixtServer" THEN "recv" ELSE "done"

\* forward_udp returning true for every message that decodes.
after_forward_never(raw) == "recv"

\* client.rs:251-261: what follows the queueing of the text `raw`: on a decode
\* error `continue`, on EixtServer `return false`, else `return true` (and the
\* caller's while loop calls again).
after_forward(raw) ==
    IF from_str_ok(raw) /\ from_str(raw).code = "EixtServer" THEN "done" ELSE "recv"

\* client.rs:231-270, one turn of the loop with socket.recv returning `raw`.
\* The text goes to the render queue before it is decoded.
forward_udp(raw) ==
    /\ ThreadsRun
    /\ mailboxPc = "recv"
    /\ nRecv < MaxRecv
    /\ nRecv' = nRecv + 1
    /\ buf' = raw
    /\ IF ~from_utf8_ok(raw)
       THEN UNCHANGED <<mailQ, mailboxPc>>
       ELSE IF prerenderPc # "run"
       THEN \* mail_receiver is dropped: send is Err, return false
            /\ mailboxPc' = "done"
            /\ UNCHANGED mailQ
       ELSE /\ mailQ' = Append(mailQ, InternalMessage("ReceiveMessage", raw))
            /\ mailboxPc' = after_forward(raw)
    /\ UNCHANGED <<clientGroup, cliPc, prerenderPc, postmanPc, viewQ, postQ,
                   viewRx, template, history, sentC, nSubmit, c2s>>

\* client.rs:233-239: socket.recv returns Err.
forward_udp_err ==
    /\ ThreadsRun
    /\ mailboxPc = "recv"
    /\ mailboxPc' = "done"
    /\ UNCHANGED <<clientGroup, cliPc, prerenderPc, postmanPc, mailQ, viewQ,
                   postQ, viewRx, template, history, sentC, buf, nRecv, nSubmit,
                   c2s, s2c>>

\* client.rs:272-295, one turn of the loop.
forward_prerender ==
    /\ ThreadsRun
    /\ prerenderPc = "run"
    /\ mailQ # <<>>
    /\ mailQ' = Tail(mailQ)
    /\ LET imsg == Head(mailQ) IN
       IF imsg.code = "ClientShutdown"
       THEN /\ prerenderPc' = "done"
            /\ UNCHANGED viewQ
       ELSE IF imsg.code # "ReceiveMessage" \/ ~from_str_ok(imsg.msg)
       THEN UNCHANGED <<prerenderPc, viewQ>>
       ELSE LET r == message_prerender(from_str(imsg.msg)) IN
            IF ~r.some
            THEN UNCHANGED <<prerenderPc, viewQ>>
            ELSE IF viewRx
            THEN /\ viewQ' = Append(viewQ, r.text)
                 /\ UNCHANGED prerenderPc
            ELSE \* view_receiver is dropped: send is Err, unwrap panics
                 /\ prerenderPc' = "panicked"
                 /\ UNCHANGED viewQ
    /\ UNCHANGED <<clientGroup, cliPc, mailboxPc, postmanPc, postQ, viewRx,
                   template, history, sentC, buf, nRecv, nSubmit, c2s, s2c>>

\* The postman going on after the farewell (no break).
after_send_nobreak(code, ok) ==
    IF ~ok THEN "panicked" ELSE "run"

\* client.rs:318-326: what follows socket.send for an event of ClientCode
\* `code`: unwrap panics on Err; a ClientShutdown breaks the loop.
after_send(code, ok) ==
    IF ~ok THEN "panicked"
    ELSE IF code = "ClientShutdown" THEN "done"
    ELSE "run"

\* client.rs:297-328, one turn of the loop.
forward_client_message ==
    /\ ThreadsRun
    /\ postmanPc = "run"
    /\ postQ # <<>>
    /\ postQ' = Tail(postQ)
    /\ LET imsg == Head(postQ) IN
       IF imsg.code \notin {"ClientShutdown", "SendMessage"}
       THEN UNCHANGED <<template, postmanPc, sentC, c2s>>
       ELSE /\ template' =
                set_message(
                    set_code(template,
                             IF imsg.code = "ClientShutdown"
                             THEN "EixtServer" ELSE "SendMessage"),
                    imsg.msg)
            /\ \E ok \in BOOLEAN :
                /\ SocketSend(to_string(template'), ok)
                /\ postmanPc' = after_send(imsg.code, ok)
    /\ UNCHANGED <<clientGroup, cliPc, mailboxPc, prerenderPc, mailQ, viewQ,
                   viewRx, history, buf, nRecv, nSubmit, s2c>>

\* client.rs:182-186: the editor's on_submit, run by siv.step().
on_submit(text) ==
    /\ cliPc = "ui"
    /\ nSubmit < MaxSubmit
    /\ nSubmit' = nSubmit + 1
    /\ IF postmanPc = "run"
       THEN /\ postQ' = Append(postQ, InternalMessage("SendMessage", text))
            /\ UNCHANGED cliPc
       ELSE \* post_receiver is dropped: send is Err, unwrap panics
            /\ cliPc' = "panicked"
            /\ UNCHANGED postQ
    /\ UNCHANGED <<clientGroup, mailboxPc, prerenderPc, postmanPc, mailQ, viewQ,
                   viewRx, template, history, sentC, buf, nRecv, c2s, s2c>>

\* The waiting lines put above the lines already shown.
run_poll_newest_first ==
    /\ cliPc = "ui"
    /\ viewQ # <<>>
    /\ history' = viewQ \o history
    /\ viewQ' = <<>>
    /\ UNCHANGED <<clientGroup, cliPc, mailboxPc, prerenderPc, postmanPc, mailQ,
                   postQ, viewRx, template, sentC, buf, nRecv, nSubmit, c2s, s2c>>

\* client.rs:215-222: the lines waiting are added to chat.history.
run_poll ==
    /\ cliPc = "ui"
    /\ viewQ # <<>>
    /\ history' = history \o viewQ
    /\ viewQ' = <<>>
    /\ UNCHANGED <<clientGroup, cliPc, mailboxPc, prerenderPc, postmanPc, mailQ,
                   postQ, viewRx, template, sentC, buf, nRecv, nSubmit, c2s, s2c>>

\* client.rs:151-159, 205-206: a quit key; siv.is_running() turns false.
run_quit ==
    /\ cliPc = "ui"
    /\ cliPc' = "shutdown_mail"
    /\ UNCHANGED <<clientGroup, mailboxPc, prerenderPc, postmanPc, mailQ, viewQ,
                   postQ, viewRx, template, history, sentC, buf, nRecv, nSubmit,
                   c2s, s2c>>

\* client.rs:208-211, senders[0] = mail_sender.
run_shutdown_mail ==
    /\ cliPc = "shutdown_mail"
    /\ IF prerenderPc = "run"
       THEN /\ mailQ' = Append(mailQ, InternalMessage("ClientShutdown", ""))
            /\ cliPc' = "shutdown_post"
       ELSE /\ cliPc' = "panicked"
            /\ UNCHANGED mailQ
    /\ UNCHANGED <<clientGroup, mailboxPc, prerenderPc, postmanPc, viewQ, postQ,
                   viewRx, template, history, sentC, buf, nRecv, nSubmit, c2s, s2c>>

\* client.rs:208-211, senders[1] = post_sender.
run_shutdown_post ==
    /\ cliPc = "shutdown_post"
    /\ IF postmanPc = "run"
       THEN /\ postQ' = Append(postQ, InternalMessage("ClientShutdown", ""))
            /\ cliPc' = "run_return"
       ELSE /\ cliPc' = "panicked"
            /\ UNCHANGED postQ
    /\ UNCHANGED <<clientGroup, mailboxPc, prerenderPc, postmanPc, mailQ, viewQ,
                   viewRx, template, history, sentC, buf, nRecv, nSubmit, c2s, s2c>>

\* client.rs:212, 228-229: run returns; its parameter view_receiver is dropped.
run_return ==
    /\ cliPc = "run_return"
    /\ cliPc' = "join_prerender"
    /\ viewRx' = FALSE
    /\ UNCHANGED <<clientGroup, mailboxPc, prerenderPc, postmanPc, mailQ, viewQ,
                   postQ, template, history, sentC, buf, nRecv, nSubmit, c2s, s2c>>

\* thread.join().unwrap(): waits for the thread; panics if it panicked.
JoinThread(here, threadPc, next) ==
    /\ cliPc = here
    /\ threadPc \in {"done", "panicked"}
    /\ cliPc' = IF threadPc = "panicked" THEN "panicked" ELSE next
    /\ UNCHANGED <<clientGroup, mailboxPc, prerenderPc, postmanPc, mailQ, viewQ,
                   postQ, viewRx, template, history, sentC, buf, nRecv, nSubmit,
                   c2s, s2c>>

\* client.rs:143-147
main_join ==
    \/ JoinThread("join_prerender", prerenderPc, "join_postman")
    \/ JoinThread("join_postman", postmanPc, "join_mailbox")
    \/ JoinThread("join_mailbox", mailboxPc, "exit")

\* client.rs:107-111: the state before try_login.
ClientInit ==
    /\ clientGroup = ""
    /\ cliPc = "login"
    /\ mailboxPc = "recv"
    /\ prerenderPc = "run"
    /\ postmanPc = "run"
    /\ mailQ = <<>>
    /\ viewQ = <<>>
    /\ postQ = <<>>
    /\ viewRx = TRUE
    /\ template = Message("SendMessage", 0, get_group(""), get_member, "")
    /\ history = <<>>
    /\ sentC = <<>>
    /\ buf = NotUtf8
    /\ nRecv = 0
    /\ nSubmit = 0

\* No Message is being taken through the codec.
CodecIdle ==
    /\ encIn = Message("SendMessage", 0, Group("", 0), get_member, "")
    /\ wire = NotUtf8
    /\ decOut = encIn
    /\ codecPc = "idle"

Init ==
    /\ clock = 1
    /\ ServerInit
    /\ ClientInit
    /\ c2s = <<>>
    /\ s2c = <<>>
    /\ CodecIdle

\* ------------------------------------------------- the codec on its own

\* Message values: every control code, timestamps inside and outside the
\* range chrono can show, and IPv4 and IPv6 sender addresses.
Messages ==
    {Message(c, ts, Group(g, id), Member(n, a), t) :
        c \in ControlCode, ts \in {-1, 0, BadTimestamp},
        g \in {"", "global"}, id \in {0, 1}, n \in {"alice", "bob"},
        a \in SocketAddr \cup SocketAddrV6, t \in {"", "global"}}

\* serde_json::to_string(&msg)
encode ==
    /\ codecPc = "new"
    /\ wire' = to_string(encIn)
    /\ codecPc' = "encoded"
    /\ UNCHANGED <<encIn, decOut>>

\* from_utf8 and serde_json::from_str::<Message> on the text
decode ==
    /\ codecPc = "encoded"
    /\ IF from_utf8_ok(wire) /\ from_str_ok(wire)
       THEN decOut' = from_str(wire) /\ codecPc' = "decoded"
       ELSE codecPc' = "failed" /\ UNCHANGED decOut
    /\ UNCHANGED <<encIn, wire>>

InitCodec ==
    /\ clock = 1
    /\ ServerInit
    /\ ClientInit
    /\ c2s = <<>>
    /\ s2c = <<>>
    /\ encIn \in Messages
    /\ wire = NotUtf8
    /\ decOut = Message("SendMessage", 0, Group("", 0), get_member, "")
    /\ codecPc = "new"

CodecEncode == encode /\ UNCHANGED <<clock, serverVars, clientVars, netVars>>
CodecDecode == decode /\ UNCHANGED <<clock, serverVars, clientVars, netVars>>
CodecNext == CodecEncode \/ CodecDecode

SpecCodec == InitCodec /\ [][CodecNext]_vars

\* ------------------------------------------------- the server on its own

Tick ==
    /\ clock < MaxClock
    /\ clock' = clock + 1

\* A datagram from anywhere reaches the server's socket.
ServerRecv ==
    /\ \E raw \in Datagrams, src \in SocketAddr : recv_from(raw, src)
    /\ UNCHANGED <<codecVars, clock, clientVars, netVars>>

ServerParse ==
    /\ listen_parse
    /\ UNCHANGED <<codecVars, clock, clientVars, netVars>>

ServerTick ==
    /\ Tick
    /\ UNCHANGED <<codecVars, serverVars, clientVars, netVars>>

ServerNext == ServerRecv \/ ServerParse \/ ServerTick

SpecServer == Init /\ [][ServerNext]_vars

\* ------------------------------------------------- the client on its own

\* What the network can hand the client's socket.
ClientDatagrams ==
    {to_string(Message(c, ts, Group("", 0),
                       Member("bob", Addr(BasePort + 1)), "global")) :
        c \in {"SendMessage", "EixtServer"}, ts \in EmbeddedTimestamps}
    \cup {to_string(Message("SendMessage", BadTimestamp, Group("", 0),
                            Member("bob", Addr(BasePort + 1)), "global")),
          NotUtf8, NotJson}

ClientRecv ==
    /\ \E raw \in ClientDatagrams : forward_udp(raw)
    /\ UNCHANGED <<codecVars, s2c, clock, serverVars>>

ClientRecvErr == forward_udp_err /\ UNCHANGED <<codecVars, clock, serverVars>>
ClientPrerender == forward_prerender /\ UNCHANGED <<codecVars, clock, serverVars>>
ClientPostman == forward_client_message /\ UNCHANGED <<codecVars, clock, serverVars>>
ClientLogin ==
    /\ \E name \in Texts : try_login(name)
    /\ UNCHANGED <<codecVars, clock, serverVars>>
ClientSubmit ==
    /\ \E text \in Texts : on_submit(text)
    /\ UNCHANGED <<codecVars, clock, serverVars>>
ClientPoll == run_poll /\ UNCHANGED <<codecVars, clock, serverVars>>
ClientQuit == run_quit /\ UNCHANGED <<codecVars, clock, serverVars>>
ClientShutdownMail == run_shutdown_mail /\ UNCHANGED <<codecVars, clock, serverVars>>
ClientShutdownPost == run_shutdown_post /\ UNCHANGED <<codecVars, clock, serverVars>>
ClientRunReturn == run_return /\ UNCHANGED <<codecVars, clock, serverVars>>
ClientJoin == main_join /\ UNCHANGED <<codecVars, clock, serverVars>>

ClientNext ==
    \/ ClientLogin
    \/ ClientRecv
    \/ ClientRecvErr
    \/ ClientPrerender
    \/ ClientPostman
    \/ ClientSubmit
    \/ ClientPoll
    \/ ClientQuit
    \/ ClientShutdownMail
    \/ ClientShutdownPost
    \/ ClientRunReturn
    \/ ClientJoin

SpecClient == Init /\ [][ClientNext]_vars

\* ------------------------------------- one client and the server together

\* The datagrams of the outbox that reach the client's socket.
DeliveredToClient(box) ==
    IF \E t \in Sends(box) : t.to = ClientAddr /\ t.ok
    THEN <<(CHOOSE t \in Sends(box) : t.to = ClientAddr /\ t.ok).payload>>
    ELSE <<>>

SysServerRecv ==
    /\ c2s # <<>>
    /\ recv_from(Head(c2s), ClientAddr)
    /\ c2s' = Tail(c2s)
    /\ UNCHANGED <<codecVars, clock, clientVars, s2c>>

SysServerParse ==
    /\ listen_parse
    /\ s2c' = s2c \o DeliveredToClient(outbox')
    /\ UNCHANGED <<codecVars, clock, clientVars, c2s>>

SysClientRecv ==
    /\ s2c # <<>>
    /\ forward_udp(Head(s2c))
    /\ s2c' = Tail(s2c)
    /\ UNCHANGED <<codecVars, clock, serverVars>>

SysNext ==
    \/ SysServerRecv
    \/ SysServerParse
    \/ SysClientRecv
    \/ ClientLogin
    \/ ClientRecvErr
    \/ ClientPrerender
    \/ ClientPostman
    \/ ClientSubmit
    \/ ClientPoll
    \/ ClientQuit
    \/ ClientShutdownMail
    \/ ClientShutdownPost
    \/ ClientRunReturn
    \/ ClientJoin

SpecSys == Init /\ [][SysNext]_vars

\* ------------------------------------------------------ claims: the server

\* The datagram in inRaw decodes to a Message.
Decodes(raw) == from_utf8_ok(raw) /\ from_str_ok(raw)
\* This step is the call of parse_msg on inRaw.
ParseStep == srvPc = "parse" /\ srvPc' # "parse"
\* parse_msg has run on inRaw (and no later datagram has been received).
Parsed == srvPc # "parse" /\ (srvPc = "panicked" \/ outbox # EmptyBag \/ Decodes(inRaw))
Recipients(box) == {t.to : t \in Sends(box)}

\* C1: a JoinGroup whose group (the message text) the server does not know
\* makes exactly one send_to call, of an Error-coded message, to the source
\* endpoint and to nobody else, and leaves the member set as it was.
C1_JoinUnknownGroup ==
    [][(ParseStep /\ Decodes(inRaw) /\ inRaw.code = "JoinGroup"
          /\ inRaw.msg \notin groups)
       => /\ members' = members
          /\ BagCardinality(outbox') = 1
          /\ \A t \in Sends(outbox') :
                t.to = inSrc /\ t.payload.code = "Error"]_vars

\* C1's case: a non-member asked for an unknown group while the server had
\* other members; the one send went to the requester.
C1_Witness ==
    /\ srvPc = "recv"
    /\ Decodes(inRaw) /\ inRaw.code = "JoinGroup" /\ inRaw.msg \notin groups
    /\ members # {} /\ inSrc \notin members
    /\ Recipients(outbox) = {inSrc}

\* C2 as claimed: a SendMessage from a member, with N members, makes exactly
\* N send_to calls, one to each member, all with one payload whose sender
\* address is the source endpoint.
C2_Claim ==
    [][(ParseStep /\ Decodes(inRaw) /\ inRaw.code = "SendMessage"
          /\ inSrc \in members)
       => /\ BagCardinality(outbox') = Cardinality(members)
          /\ Recipients(outbox') = members
          /\ \A t \in Sends(outbox') :
                t.payload.sender.address = AddrToString(inSrc)
          /\ \A t, u \in Sends(outbox') : t.payload = u.payload]_vars

\* C3 as claimed: whatever the server sends to a member, a broadcast or the
\* Error reply to a failed join, carries the clock reading of the send and
\* the source endpoint of the datagram that caused it as sender address.
C3_Claim ==
    [][ParseStep
       => \A t \in Sends(outbox') :
             (t.ok /\ t.to \in members')
             => /\ t.payload.timestamp = clock
                /\ t.payload.sender.address = AddrToString(inSrc)]_vars

\* C4 as claimed: a datagram that does not decode leaves the server running,
\* back in recv_from, with groups and members as they were.
C4_Claim ==
    [][(ParseStep /\ ~Decodes(inRaw))
       => /\ srvPc' = "recv"
          /\ members' = members
          /\ groups' = groups]_vars

\* C9: a LeaveGroup from an endpoint that is not a member leaves the member
\* set as it was and is answered with no Error message, and the server goes
\* on unless a send of the announcement fails; after any LeaveGroup the source
\* is not a member, so a second one changes nothing more.
C9_LeaveIdempotent ==
    [][(ParseStep /\ Decodes(inRaw) /\ inRaw.code = "LeaveGroup")
       => /\ inSrc \notin members => members' = members
          /\ inSrc \notin members'
          /\ members' = members \ {inSrc}
          /\ \A t \in Sends(outbox') : t.payload.code = "LeaveGroup"
          /\ (\A t \in Sends(outbox') : t.ok) => srvPc' = "recv"]_vars

\* C9's case: a LeaveGroup from a non-member was handled while there were
\* members: they got the announcement and are still the member set.
C9_Witness ==
    /\ srvPc = "recv"
    /\ Decodes(inRaw) /\ inRaw.code = "LeaveGroup"
    /\ inSrc \notin members
    /\ Cardinality(members) >= 2
    /\ Recipients(outbox) = members

\* C10 as claimed: when a send of a broadcast fails, every member is still
\* sent to and the server keeps running.
C10_Claim ==
    (Parsed /\ Decodes(inRaw)
       /\ \E t \in Sends(outbox) : ~t.ok /\ t.payload.code # "Error")
    => /\ srvPc = "recv"
       /\ Recipients(outbox) = members

\* ------------------------------------------------------ claims: the client

\* This step is a turn of forward_udp in which socket.recv returned buf'.
RecvStep == nRecv' = nRecv + 1
\* This step is a turn of forward_prerender on the head of mailQ.
RenderStep == mailQ # <<>> /\ mailQ' = Tail(mailQ)
\* The message a queued text decodes to has a line.
Renders(text) == from_str_ok(text) /\ message_prerender(from_str(text)).some

\* What the render thread does with a text that does not decode, and with one
\* that does while the UI still listens: the first is skipped, the second
\* becomes a line, and the thread goes on.
RenderSkipsBad ==
    /\ (RenderStep /\ Head(mailQ).code = "ReceiveMessage"
          /\ ~from_str_ok(Head(mailQ).msg))
       => (prerenderPc' = "run" /\ viewQ' = viewQ /\ history' = history)
    /\ (RenderStep /\ Head(mailQ).code = "ReceiveMessage"
          /\ Renders(Head(mailQ).msg) /\ viewRx)
       => /\ prerenderPc' = "run"
          /\ viewQ' = Append(viewQ,
                             message_prerender(from_str(Head(mailQ).msg)).text)

\* C5 as claimed: a datagram that is not UTF-8 or does not decode ends neither
\* the receiver thread nor the render thread and gives no line, and valid
\* messages after it are rendered.
C5_Claim ==
    [][/\ (RecvStep /\ ~Decodes(buf'))
          => /\ mailboxPc' = "recv"
             /\ prerenderPc' = prerenderPc
             /\ viewQ' = viewQ /\ history' = history
       /\ RenderSkipsBad]_vars

\* C5, amended: the same, except that a UTF-8 text that does not decode, like
\* any UTF-8 text, ends the receiver thread when the render thread has ended
\* (the send into the render queue fails).
C5_BadDatagramSkipped ==
    [][/\ (RecvStep /\ ~Decodes(buf'))
          => /\ (~from_utf8_ok(buf') \/ prerenderPc = "run") => mailboxPc' = "recv"
             /\ (from_utf8_ok(buf') /\ prerenderPc # "run") => mailboxPc' = "done"
             /\ prerenderPc' = prerenderPc
             /\ viewQ' = viewQ /\ history' = history
       /\ RenderSkipsBad]_vars

\* C5's case: two datagrams were received; the first left no line, the second
\* decoded and is the one line rendered; both threads are running.
C5_Witness ==
    /\ nRecv = 2 /\ Decodes(buf) /\ mailQ = <<>> /\ history = <<>>
    /\ viewQ = <<message_prerender(from_str(buf)).text>>
    /\ mailboxPc = "recv" /\ prerenderPc = "run"

IsFarewell(call) == call.payload.code = "EixtServer"
FarewellCalls == {i \in DOMAIN sentC : IsFarewell(sentC[i])}
ShutdownsQueued == {i \in DOMAIN postQ : postQ[i].code = "ClientShutdown"}
\* The UI has made both sends of its shutdown broadcast.
QuitDone == cliPc \in {"run_return", "join_prerender", "join_postman",
                       "join_mailbox", "exit"}

C7_Claim ==
    (cliPc \in {"exit", "panicked"} /\ ~viewRx) => FarewellCalls # {}

\* C8 as claimed: when the client has quit and the server has handled all the
\* client sent, the client's endpoint is not a member.
C8_Claim ==
    (postmanPc = "done" /\ c2s = <<>> /\ srvPc = "recv")
    => ClientAddr \notin members

\* C11 as claimed: a JoinGroup naming an existing group puts the source
\* endpoint into the member set and makes exactly one send_to call of the
\* join announcement to every member of the updated set, the joiner included.
C11_Claim ==
    [][(ParseStep /\ Decodes(inRaw) /\ inRaw.code = "JoinGroup"
          /\ inRaw.msg \in groups)
       => /\ members' = members \cup {inSrc}
          /\ Recipients(outbox') = members'
          /\ BagCardinality(outbox') = Cardinality(members')
          /\ \A t \in Sends(outbox') : t.payload.code = "JoinGroup"]_vars

\* The line the render thread makes of a queued event.
LineOfEvent(imsg) == message_prerender(from_str(imsg.msg)).text
\* This step is the UI taking the lines that wait.
PollStep == history' # history

\* C12: the lines reach the UI in the order their datagrams were received,
\* none twice.  Each of the three stages keeps the order: the receiver puts
\* the text of the datagram it received at the tail of the render queue and
\* nowhere else; the render thread takes the head of that queue and puts at
\* most one line, the line of that text, at the tail of the lines waiting for
\* the UI; the UI moves all lines waiting, in their order, to the end of the
\* history.  Nothing else adds, moves or removes a text or a line.
C12_OrderKept ==
    [][/\ RecvStep
          => /\ mailQ' \in {mailQ,
                            Append(mailQ, InternalMessage("ReceiveMessage", buf'))}
             /\ viewQ' = viewQ /\ history' = history
       /\ RenderStep
          => /\ \/ viewQ' = viewQ
                \/ /\ Head(mailQ).code = "ReceiveMessage"
                   /\ Renders(Head(mailQ).msg)
                   /\ viewQ' = Append(viewQ, LineOfEvent(Head(mailQ)))
             /\ history' = history
       /\ PollStep
          => /\ history' = history \o viewQ
             /\ viewQ' = <<>>
             /\ mailQ' = mailQ
       /\ ~(RecvStep \/ RenderStep \/ PollStep)
          => /\ mailQ' \in {mailQ,
                            Append(mailQ, InternalMessage("ClientShutdown", ""))}
             /\ viewQ' = viewQ /\ history' = history]_vars

\* C12's case: two datagrams with different lines were received, a message
\* and then an exit announcement, and the UI shows both in that order.
C12_Witness ==
    /\ nRecv = 2 /\ Len(history) = 2
    /\ history[1].kind = "~>" /\ history[2].kind = "has exit the server"
    /\ buf.code = "EixtServer"

ReceiverStops == mailboxPc = "recv" /\ mailboxPc' = "done"

\* C15 as claimed: the receiver thread ends only when socket.recv returns an
\* error; no datagram socket.recv returned makes it stop.
C15_Claim == [][ReceiverStops => ~RecvStep]_vars

\* C15, amended: the receiver thread ends when socket.recv returns an error,
\* when a datagram it received decodes to an EixtServer-coded message (after
\* its text was queued for rendering), and when it receives a UTF-8 datagram
\* after the render thread has ended (the send into the render queue fails);
\* every other datagram received, a non-UTF-8 one included, leaves it running.
C15_ReceiverStops ==
    [][/\ ReceiverStops
          => \/ ~RecvStep
             \/ /\ RecvStep /\ buf'.utf8
                /\ \/ prerenderPc # "run"
                   \/ Decodes(buf') /\ buf'.code = "EixtServer"
       /\ (RecvStep /\ prerenderPc = "run" /\ Decodes(buf')
             /\ buf'.code = "EixtServer")
          => /\ ReceiverStops
             /\ mailQ' = Append(mailQ, InternalMessage("ReceiveMessage", buf'))
       /\ (RecvStep /\ buf'.utf8 /\ prerenderPc # "run") => ReceiverStops
       /\ (RecvStep /\ ~buf'.utf8) => mailboxPc' = "recv"
       /\ (RecvStep /\ prerenderPc = "run"
             /\ ~(Decodes(buf') /\ buf'.code = "EixtServer"))
          => mailboxPc' = "recv"]_vars

\* C15's case: with the UI and the render thread running, the receiver thread
\* took an EixtServer-coded datagram and has ended.
C15_Witness ==
    /\ cliPc = "ui" /\ prerenderPc = "run"
    /\ nRecv >= 1 /\ Decodes(buf) /\ buf.code = "EixtServer"
    /\ mailboxPc = "done"

\* C16 as claimed: a received datagram that does not decode to a Message is
\* never put on the render queue.
C16_Claim == [][(RecvStep /\ ~Decodes(buf')) => mailQ' = mailQ]_vars

\* C16, amended: the receiver puts the text of every datagram that is valid
\* UTF-8 on the render queue, whether it decodes or not, as long as the
\* render thread runs, and puts nothing there for bytes that are not UTF-8;
\* a queued text that does not decode is dropped by the render thread and
\* gives no line.
C16_QueuedBeforeDecode ==
    [][/\ RecvStep
          => mailQ' = IF buf'.utf8 /\ prerenderPc = "run"
                      THEN Append(mailQ, InternalMessage("ReceiveMessage", buf'))
                      ELSE mailQ
       /\ (RenderStep /\ Head(mailQ).code = "ReceiveMessage"
             /\ ~from_str_ok(Head(mailQ).msg))
          => (viewQ' = viewQ /\ history' = history /\ prerenderPc' = "run")]_vars

\* C16's case: a UTF-8 text that is no Message was received and is waiting in
\* the render queue.
C16_Witness ==
    /\ nRecv >= 1 /\ buf = NotJson
    /\ mailQ # <<>> /\ mailQ[Len(mailQ)] = InternalMessage("ReceiveMessage", NotJson)

\* ---------------------------------------------- claims: the client's sender

\* This step is a submission in the editor.
SubmitStep == nSubmit' = nSubmit + 1
\* This step is a turn of forward_client_message on the head of postQ.
PostStep == postQ # <<>> /\ postQ' = Tail(postQ)
\* What the postman hands to socket.send for a text.
TextDatagram(text) ==
    to_string(Message("SendMessage", template.timestamp,
                      get_group(clientGroup), get_member, text))

ValidJoin == Decodes(inRaw) /\ inRaw.code = "JoinGroup" /\ inRaw.msg \in groups
IsLeave == Decodes(inRaw) /\ inRaw.code = "LeaveGroup"

\* C18: the member set changes only when parse_msg handles a datagram: a
\* JoinGroup for an existing group adds the source endpoint, a LeaveGroup
\* removes it, and every other datagram (SendMessage, Error, EixtServer, a
\* JoinGroup for an unknown group, one that does not decode) leaves the set
\* as it was; so an endpoint is a member exactly when it has joined and not
\* left since.  The group set is {"global"} throughout.
C18_Membership ==
    /\ [](groups = {"global"})
    /\ [][/\ ParseStep
             => members' = IF ValidJoin THEN members \cup {inSrc}
                           ELSE IF IsLeave THEN members \ {inSrc}
                           ELSE members
          /\ ~ParseStep => members' = members]_vars

\* C18's case: a JoinGroup for "global" was handled while another endpoint
\* was a member; the source was added and both are members.
C18_Witness ==
    /\ srvPc = "recv" /\ ValidJoin
    /\ inSrc \in members /\ Cardinality(members) = 2
    /\ \A t \in Sends(outbox) : t.ok

\* --------------------------------------------- claims: the client's shutdown

\* The client with its threads and its main thread scheduled fairly: a step
\* a thread can take is taken.  Nothing obliges the network to deliver a
\* datagram or the socket to fail, nor the user to type or to quit.
ClientFairness ==
    /\ WF_vars(ClientPrerender)
    /\ WF_vars(ClientPostman)
    /\ WF_vars(ClientShutdownMail)
    /\ WF_vars(ClientShutdownPost)
    /\ WF_vars(ClientRunReturn)
    /\ WF_vars(ClientJoin)

SpecClientFair == Init /\ [][ClientNext]_vars /\ ClientFairness

\* C19 as claimed: once the user has quit, the process ends (main returns, or
\* panics), whether or not another datagram arrives.  Executions in which as
\* many datagrams arrive as the model lets arrive are left aside, so that a
\* run refuting this is one where the socket could still deliver.
C19_Claim ==
    (cliPc = "shutdown_mail")
    ~> (cliPc \in {"exit", "panicked"} \/ nRecv = MaxRecv)

\* ------------------------------------------- claims: the server's broadcasts

\* This step is parse_msg running handle_msg_send_message or
\* handle_msg_leave_group.
RelayStep ==
    ParseStep /\ Decodes(inRaw) /\ inRaw.code \in {"SendMessage", "LeaveGroup"}

\* C20 as claimed: the relay of a SendMessage or LeaveGroup makes a send_to
\* call to every endpoint of the member set as it is after the handler's
\* update and to nobody else, whether or not the source is a member: never
\* to the endpoint that leaves, never back to a source that is no member.
C20_Claim ==
    [][RelayStep
       => /\ Recipients(outbox') = members'
          /\ (inRaw.code = "LeaveGroup" \/ inSrc \notin members)
             => inSrc \notin Recipients(outbox')]_vars

====
